---- MODULE Spec2Model ----
(***************************************************************************)
(* Model of dash2.py, a Streamlit sales dashboard.                         *)
(*                                                                         *)
(* The script builds a synthetic transaction log once                      *)
(* (generate_sales_data), then on every run reads the sidebar widgets and  *)
(* recomputes the filtered subset, the previous-period subset, the KPIs    *)
(* and the top-N tables.                                                   *)
(*                                                                         *)
(* Units.  A date is a day number, day 1 being the first day of the        *)
(* generator's date_range (2024-01-01); the previous-period window may     *)
(* reach days <= 0.  A drawn price is in mills (1/1000 dollar); the stored *)
(* Unit_Price and Revenue are in cents, i.e. rounded to 2 decimals.        *)
(* Quotients of floats (mean, growth rate) are exact fractions <<n, d>>    *)
(* in lowest terms; binary rounding error of float64 is not modelled.      *)
(* The np.random draws are nondeterministic choices from the draw sets of  *)
(* a scenario.                                                             *)
(***************************************************************************)
EXTENDS Integers, Sequences, FiniteSets, TLC

VARIABLES
    pc,                  \* position of the script
    date,                \* generate_sales_data: loop variable of line 23
    num_transactions,    \* generate_sales_data: line 24
    made,                \* generate_sales_data: iterations done of line 25
    data,                \* generate_sales_data: the list of line 22
    df,                  \* the transaction log (line 57)
    start_date, end_date,                                   \* lines 72-75
    selected_categories, selected_regions, selected_products,
    filtered_df,         \* lines 95-101
    period_days, previous_start, previous_end,              \* lines 103-105
    previous_df,         \* lines 107-113
    current_revenue, previous_revenue, growth_rate,         \* lines 115-121
    total_revenue, total_transactions, avg_transaction, total_quantity,
    product_revenue,     \* line 190
    display_df,          \* lines 207-209
    top_products         \* lines 237-241

genVars == <<date, num_transactions, made, data>>
selVars == <<start_date, end_date, selected_categories, selected_regions,
             selected_products>>
viewVars == <<filtered_df, period_days, previous_start, previous_end,
              previous_df, current_revenue, previous_revenue, growth_rate,
              total_revenue, total_transactions, avg_transaction,
              total_quantity, product_revenue, display_df, top_products>>
vars == <<pc, genVars, df, selVars, viewVars>>

(***************************************************************************)
(* Bounds: the number of days of the generator's date_range in each        *)
(* scenario (the program has 329 days, 2024-01-01 .. 2024-11-24).          *)
(***************************************************************************)
NumDays == 3
GenDays == 1
TopDays == 6

(***************************************************************************)
(* Catalogs, in the order sorted() / groupby give them.                    *)
(***************************************************************************)
products == <<"Laptop", "Smartphone", "Tablet", "Headphones", "Monitor",
              "Keyboard", "Mouse", "Webcam">>
regions == <<"North America", "Europe", "Asia", "South America", "Africa">>
ProductsSorted == <<"Headphones", "Keyboard", "Laptop", "Monitor", "Mouse",
                    "Smartphone", "Tablet", "Webcam">>

Range(s) == {s[i] : i \in 1..Len(s)}

(***************************************************************************)
(* generate_sales_data                                                     *)
(***************************************************************************)
CategoryWebcamAccessory(product) ==
    IF product \in {"Laptop", "Monitor"} THEN "Computers"
    ELSE IF product \in {"Smartphone", "Tablet"} THEN "Electronics"
    ELSE IF product \in {"Headphones"} THEN "Audio"
    ELSE "Accessories"

Category(product) ==
    IF product \in {"Laptop", "Monitor"} THEN "Computers"
    ELSE IF product \in {"Smartphone", "Tablet"} THEN "Electronics"
    ELSE IF product \in {"Headphones", "Webcam"} THEN "Audio"
    ELSE "Accessories"

\* np.random.uniform(low, high) of the product's branch, in mills: [low, high)
PriceRange(product) ==
    IF product \in {"Laptop", "Monitor"} THEN [low |-> 500000, high |-> 2000000]
    ELSE IF product \in {"Smartphone", "Tablet"} THEN [low |-> 300000, high |-> 1200000]
    ELSE IF product \in {"Headphones", "Webcam"} THEN [low |-> 50000, high |-> 400000]
    ELSE [low |-> 20000, high |-> 150000]

\* round(x, 2) of a value given in mills, in cents.  A tie (last digit 5)
\* goes to the even cent, as for a float that holds the tie exactly.
Round2(mills) ==
    LET q == mills \div 10
        r == mills % 10
    IN  IF r < 5 THEN q
        ELSE IF r > 5 THEN q + 1
        ELSE IF q % 2 = 0 THEN q ELSE q + 1

Record(d, product, price, quantity, region) ==
    [Date |-> d,
     Product |-> product,
     Category |-> Category(product),
     Region |-> region,
     Quantity |-> quantity,
     Unit_Price |-> Round2(price),
     Revenue |-> Round2(price * quantity)]

(***************************************************************************)
(* Scenarios: the draw sets standing for np.random in one specification.   *)
(*   days      length of date_range                                        *)
(*   tx        values np.random.randint(5, 15) may return (scaled down)    *)
(*   products  values np.random.choice(products) may return                *)
(*   prices    values np.random.uniform may return (kept to the branch's   *)
(*             range by PriceRange)                                        *)
(*   quantity  values np.random.randint(1, 10) may return                  *)
(*   regions   values np.random.choice(regions) may return                 *)
(***************************************************************************)
FilterDraws ==
    [days |-> NumDays, tx |-> {1},
     products |-> {"Laptop", "Mouse"},
     prices |-> {500000, 100000},
     quantity |-> {2},
     regions |-> {"Asia", "Europe"}]

GrowthDraws ==
    [days |-> NumDays, tx |-> {1},
     products |-> {"Laptop"},
     prices |-> {500000, 600000},
     quantity |-> {1, 2},
     regions |-> {"Asia"}]

PrevDraws ==
    [days |-> NumDays, tx |-> {2},
     products |-> {"Laptop", "Mouse"},
     prices |-> {500000, 100000},
     quantity |-> {2},
     regions |-> {"Asia"}]

GenDraws ==
    [days |-> GenDays, tx |-> {1, 2},
     products |-> Range(products),
     prices |-> {100004, 120000, 600000, 700004},
     quantity |-> {9},
     regions |-> {"Africa"}]

TopDraws ==
    [days |-> TopDays, tx |-> {1},
     products |-> {"Laptop", "Monitor", "Smartphone", "Tablet", "Headphones", "Mouse"},
     prices |-> {1500000, 450000, 200000, 30000},
     quantity |-> {1},
     regions |-> {"Asia"}]

Init ==
    /\ pc = "date_loop"
    /\ date = 1
    /\ num_transactions = 0
    /\ made = 0
    /\ data = <<>>
    /\ df = <<>>
    /\ start_date = 0 /\ end_date = 0
    /\ selected_categories = {} /\ selected_regions = {} /\ selected_products = {}
    /\ filtered_df = <<>> /\ previous_df = <<>>
    /\ period_days = 0 /\ previous_start = 0 /\ previous_end = 0
    /\ current_revenue = 0 /\ previous_revenue = 0 /\ growth_rate = <<0, 1>>
    /\ total_revenue = 0 /\ total_transactions = 0
    /\ avg_transaction = <<0, 1>> /\ total_quantity = 0
    /\ product_revenue = <<>> /\ display_df = <<>> /\ top_products = <<>>

\* line 23-24: the next date of date_range, and its number of transactions
DrawCount(draws) ==
    /\ pc = "date_loop"
    /\ date <= draws.days
    /\ \E n \in draws.tx : num_transactions' = n
    /\ made' = 0
    /\ pc' = "tx_loop"
    /\ UNCHANGED <<date, data, df, selVars, viewVars>>

\* lines 25-52: one iteration of the inner loop
AppendRecord(draws) ==
    /\ pc = "tx_loop"
    /\ made < num_transactions
    /\ \E product \in draws.products :
       \E price \in {p \in draws.prices :
                        /\ PriceRange(product).low <= p
                        /\ p < PriceRange(product).high} :
       \E quantity \in draws.quantity :
       \E region \in draws.regions :
          data' = Append(data, Record(date, product, price, quantity, region))
    /\ made' = made + 1
    /\ IF made + 1 = num_transactions
          THEN date' = date + 1 /\ pc' = "date_loop"
          ELSE date' = date /\ pc' = "tx_loop"
    /\ UNCHANGED <<num_transactions, df, selVars, viewVars>>

\* lines 54-57: the loop over date_range is over; df = generate_sales_data()
LoadDf(draws) ==
    /\ pc = "date_loop"
    /\ date > draws.days
    /\ df' = data
    /\ pc' = "ready"
    /\ UNCHANGED <<genVars, selVars, viewVars>>

(***************************************************************************)
(* Sidebar widgets (lines 62-93)                                           *)
(***************************************************************************)
Min(a, b) == IF a <= b THEN a ELSE b

\* df['Date'].min() / .max()
MinDate(d) == CHOOSE x \in {d[i].Date : i \in 1..Len(d)} :
                 \A j \in 1..Len(d) : x <= d[j].Date
MaxDate(d) == CHOOSE x \in {d[i].Date : i \in 1..Len(d)} :
                 \A j \in 1..Len(d) : x >= d[j].Date

\* the options of the three multiselects: df[col].unique()
CategoryOptions(d) == {d[i].Category : i \in 1..Len(d)}
RegionOptions(d) == {d[i].Region : i \in 1..Len(d)}
ProductOptions(d) == {d[i].Product : i \in 1..Len(d)}

\* what st.date_input returns for a range: (start,) while the user is still
\* picking, (start, end) with start <= end otherwise, inside
\* [min_value, max_value]
DateInputs(d) ==
    LET days == MinDate(d)..MaxDate(d)
    IN  {<<a>> : a \in days} \cup
        {t \in {<<a, b>> : a \in days, b \in days} : t[1] <= t[2]}

\* lines 72-75
StartOf(date_range) == date_range[1]
EndOf(date_range) == IF Len(date_range) = 2 THEN date_range[2] ELSE date_range[1]

(***************************************************************************)
(* Filter and KPIs (lines 95-139)                                          *)
(***************************************************************************)
FilteredDfOpenEnd(d, sd, ed, cats, regs, prods) ==
    SelectSeq(d, LAMBDA r : /\ r.Date >= sd
                            /\ r.Date < ed
                            /\ r.Category \in cats
                            /\ r.Region \in regs
                            /\ r.Product \in prods)

FilteredDf(d, sd, ed, cats, regs, prods) ==
    SelectSeq(d, LAMBDA r : /\ r.Date >= sd
                            /\ r.Date <= ed
                            /\ r.Category \in cats
                            /\ r.Region \in regs
                            /\ r.Product \in prods)

PeriodDays(sd, ed) == (ed - sd) + 1

PreviousStartOffByOne(sd, days) == sd - days + 1

PreviousStart(sd, days) == sd - days

PreviousEndOverlap(sd) == sd

PreviousEnd(sd) == sd - 1

PreviousDfNoProducts(d, ps, pe, cats, regs, prods) ==
    SelectSeq(d, LAMBDA r : /\ r.Date >= ps
                            /\ r.Date <= pe
                            /\ r.Category \in cats
                            /\ r.Region \in regs)

PreviousDf(d, ps, pe, cats, regs, prods) ==
    SelectSeq(d, LAMBDA r : /\ r.Date >= ps
                            /\ r.Date <= pe
                            /\ r.Category \in cats
                            /\ r.Region \in regs
                            /\ r.Product \in prods)

RECURSIVE SumRevenue(_)
SumRevenue(f) ==
    IF f = <<>> THEN 0 ELSE f[1].Revenue + SumRevenue(Tail(f))

RECURSIVE SumQuantity(_)
SumQuantity(f) ==
    IF f = <<>> THEN 0 ELSE f[1].Quantity + SumQuantity(Tail(f))

RECURSIVE Gcd(_, _)
Gcd(a, b) == IF b = 0 THEN a ELSE Gcd(b, a % b)

Abs(n) == IF n < 0 THEN 0 - n ELSE n

\* float division n / d as a fraction in lowest terms; dividing by zero gives
\* numpy's nan (<<0, 0>>) or infinity (<<1, 0>>, <<-1, 0>>)
Div(n, d) ==
    IF d = 0 THEN (IF n = 0 THEN <<0, 0>> ELSE IF n > 0 THEN <<1, 0>> ELSE <<-1, 0>>)
    ELSE LET g == Gcd(Abs(n), d) IN <<n \div g, d \div g>>

\* lines 118-121
GrowthRateUnguarded(current, previous) ==
    IF previous >= 0
        THEN Div((current - previous) * 100, previous)
        ELSE <<0, 1>>

GrowthRate(current, previous) ==
    IF previous > 0
        THEN Div((current - previous) * 100, previous)
        ELSE <<0, 1>>

\* line 134
AvgTransactionUnguarded(f) == Div(SumRevenue(f), Len(f))

AvgTransaction(f) ==
    IF Len(f) > 0 THEN Div(SumRevenue(f), Len(f)) ELSE <<0, 1>>

(***************************************************************************)
(* Grouped tables (lines 190, 237-241)                                     *)
(***************************************************************************)
TopRevenueN == 8
TopSellingN == 5

\* filtered_df.groupby('Product') with the sums of Quantity and Revenue: one
\* row per product present, in sorted key order
GroupByProduct(f) ==
    LET present == SelectSeq(ProductsSorted,
                             LAMBDA p : \E i \in 1..Len(f) : f[i].Product = p)
        rows(p) == SelectSeq(f, LAMBDA r : r.Product = p)
    IN  [i \in 1..Len(present) |->
            [Product |-> present[i],
             Quantity |-> SumQuantity(rows(present[i])),
             Revenue |-> SumRevenue(rows(present[i]))]]

\* one insertion step of the stable descending sort on Revenue
RECURSIVE InsertDesc(_, _)
InsertDesc(row, sorted) ==
    IF sorted = <<>> THEN <<row>>
    ELSE IF row.Revenue > sorted[1].Revenue THEN <<row>> \o sorted
    ELSE <<sorted[1]>> \o InsertDesc(row, Tail(sorted))

\* .sort_values('Revenue', ascending=False): rows of equal Revenue keep
\* their order (the tables have at most 8 rows, which numpy sorts by
\* insertion)
RECURSIVE SortValues(_)
SortValues(t) ==
    IF t = <<>> THEN <<>>
    ELSE InsertDesc(t[Len(t)], SortValues(SubSeq(t, 1, Len(t) - 1)))

\* .head(n)
HeadOneMore(t, n) == SubSeq(t, 1, Min(n + 1, Len(t)))

HeadN(t, n) == SubSeq(t, 1, Min(n, Len(t)))

\* zero-padded decimal of width 2 and 3
Pad2(n) == IF n < 10 THEN "0" \o ToString(n) ELSE ToString(n)
Pad3(n) == IF n < 10 THEN "00" \o ToString(n)
           ELSE IF n < 100 THEN "0" \o ToString(n) ELSE ToString(n)

RECURSIVE Thousands(_)
Thousands(n) ==
    IF n < 1000 THEN ToString(n)
    ELSE Thousands(n \div 1000) \o "," \o Pad3(n % 1000)

\* f"${x:,.2f}" of an amount in cents
FormatMoney(cents) ==
    "$" \o Thousands(cents \div 100) \o "." \o Pad2(cents % 100)

\* line 190
ProductRevenue(f) ==
    LET g == GroupByProduct(f)
        t == [i \in 1..Len(g) |-> [Product |-> g[i].Product, Revenue |-> g[i].Revenue]]
    IN  HeadN(SortValues(t), TopRevenueN)

\* lines 237-241
TopProducts(f) ==
    LET t == HeadN(SortValues(GroupByProduct(f)), TopSellingN)
    IN  [i \in 1..Len(t) |-> [t[i] EXCEPT !.Revenue = FormatMoney(@)]]

(***************************************************************************)
(* Detailed table (lines 207-209)                                          *)
(***************************************************************************)
MonthLength == <<31, 29, 31, 30, 31, 30, 31, 31, 30, 31, 30, 31>>

\* month and day of month of day number d of 2024
RECURSIVE MonthDay(_, _)
MonthDay(d, m) ==
    IF d <= MonthLength[m] THEN <<m, d>> ELSE MonthDay(d - MonthLength[m], m + 1)

\* .dt.strftime('%Y-%m-%d')
Strftime(d) ==
    LET md == MonthDay(d, 1)
    IN  "2024-" \o Pad2(md[1]) \o "-" \o Pad2(md[2])

\* the rank of a formatted date among the formatted dates: the strings are
\* zero padded, so their order is the order of the days
DateRank(s) == CHOOSE d \in 1..366 : Strftime(d) = s

RECURSIVE InsertDateDesc(_, _)
InsertDateDesc(row, sorted) ==
    IF sorted = <<>> THEN <<row>>
    ELSE IF DateRank(row.Date) > DateRank(sorted[1].Date) THEN <<row>> \o sorted
    ELSE <<sorted[1]>> \o InsertDateDesc(row, Tail(sorted))

RECURSIVE SortByDateDesc(_)
SortByDateDesc(t) ==
    IF t = <<>> THEN <<>>
    ELSE InsertDateDesc(t[Len(t)], SortByDateDesc(SubSeq(t, 1, Len(t) - 1)))

DisplayDf(f) ==
    SortByDateDesc([i \in 1..Len(f) |-> [f[i] EXCEPT !.Date = Strftime(@)]])

(***************************************************************************)
(* One run of the script below line 57, with the values the widgets        *)
(* returned.                                                               *)
(***************************************************************************)
\* lines 207-209 work on a copy of the filtered rows: the log is not touched
RECURSIVE InsertLogDesc(_, _)
InsertLogDesc(row, sorted) ==
    IF sorted = <<>> THEN <<row>>
    ELSE IF row.Date > sorted[1].Date THEN <<row>> \o sorted
    ELSE <<sorted[1]>> \o InsertLogDesc(row, Tail(sorted))

RECURSIVE SortLogDesc(_)
SortLogDesc(t) ==
    IF t = <<>> THEN <<>>
    ELSE InsertLogDesc(t[Len(t)], SortLogDesc(SubSeq(t, 1, Len(t) - 1)))

\* the table built without .copy() and sorted in place: the log is reordered
DetailTableInPlace(f) ==
    /\ display_df' = DisplayDf(f)
    /\ df' = SortLogDesc(df)

DetailTable(f) ==
    /\ display_df' = DisplayDf(f)
    /\ df' = df

Run(date_range, categories, regions_, products_) ==
    LET sd == StartOf(date_range)
        ed == EndOf(date_range)
        f == FilteredDf(df, sd, ed, categories, regions_, products_)
        days == PeriodDays(sd, ed)
        ps == PreviousStart(sd, days)
        pe == PreviousEnd(sd)
        p == PreviousDf(df, ps, pe, categories, regions_, products_)
    IN  /\ start_date' = sd
        /\ end_date' = ed
        /\ selected_categories' = categories
        /\ selected_regions' = regions_
        /\ selected_products' = products_
        /\ filtered_df' = f
        /\ period_days' = days
        /\ previous_start' = ps
        /\ previous_end' = pe
        /\ previous_df' = p
        /\ current_revenue' = SumRevenue(f)
        /\ previous_revenue' = SumRevenue(p)
        /\ growth_rate' = GrowthRate(SumRevenue(f), SumRevenue(p))
        /\ total_revenue' = SumRevenue(f)
        /\ total_transactions' = Len(f)
        /\ avg_transaction' = AvgTransaction(f)
        /\ total_quantity' = SumQuantity(f)
        /\ product_revenue' = ProductRevenue(f)
        /\ DetailTable(f)
        /\ top_products' = TopProducts(f)
        /\ pc' = "rendered"
        /\ UNCHANGED genVars

\* the first run: every widget returns its default (lines 67, 80, 86, 92)
FirstRun ==
    /\ pc = "ready"
    /\ Run(<<MinDate(df), MaxDate(df)>>, CategoryOptions(df), RegionOptions(df),
           ProductOptions(df))

\* the user changes one widget, and the script runs again
ChangeDateRange ==
    /\ pc = "rendered"
    /\ \E date_range \in DateInputs(df) :
          Run(date_range, selected_categories, selected_regions, selected_products)

\* a click in a multiselect adds the option or removes it
Toggle(selected, option) ==
    IF option \in selected THEN selected \ {option} ELSE selected \cup {option}

ChangeCategories ==
    /\ pc = "rendered"
    /\ \E c \in CategoryOptions(df) :
          Run(<<start_date, end_date>>, Toggle(selected_categories, c),
              selected_regions, selected_products)

ChangeRegions ==
    /\ pc = "rendered"
    /\ \E r \in RegionOptions(df) :
          Run(<<start_date, end_date>>, selected_categories,
              Toggle(selected_regions, r), selected_products)

ChangeProducts ==
    /\ pc = "rendered"
    /\ \E p \in ProductOptions(df) :
          Run(<<start_date, end_date>>, selected_categories, selected_regions,
              Toggle(selected_products, p))

(***************************************************************************)
(* Specifications, one per scenario                                        *)
(***************************************************************************)
Next ==
    \/ DrawCount(FilterDraws) \/ AppendRecord(FilterDraws) \/ LoadDf(FilterDraws)
    \/ FirstRun \/ ChangeDateRange \/ ChangeCategories \/ ChangeRegions
    \/ ChangeProducts
Spec == Init /\ [][Next]_vars

NextGrowth ==
    \/ DrawCount(GrowthDraws) \/ AppendRecord(GrowthDraws) \/ LoadDf(GrowthDraws)
    \/ FirstRun \/ ChangeDateRange \/ ChangeCategories \/ ChangeRegions
    \/ ChangeProducts
SpecGrowth == Init /\ [][NextGrowth]_vars

NextPrev ==
    \/ DrawCount(PrevDraws) \/ AppendRecord(PrevDraws) \/ LoadDf(PrevDraws)
    \/ FirstRun \/ ChangeDateRange \/ ChangeCategories \/ ChangeRegions
    \/ ChangeProducts
SpecPrev == Init /\ [][NextPrev]_vars

NextGen ==
    \/ DrawCount(GenDraws) \/ AppendRecord(GenDraws) \/ LoadDf(GenDraws)
    \/ FirstRun
SpecGen == Init /\ [][NextGen]_vars

NextTop ==
    \/ DrawCount(TopDraws) \/ AppendRecord(TopDraws) \/ LoadDf(TopDraws)
    \/ FirstRun
SpecTop == Init /\ [][NextTop]_vars

(***************************************************************************)
(* Properties                                                              *)
(***************************************************************************)
Rendered == pc = "rendered"

InSeq(r, t) == \E j \in 1..Len(t) : t[j] = r

InSelection(r) ==
    /\ r.Category \in selected_categories
    /\ r.Region \in selected_regions
    /\ r.Product \in selected_products

InPeriod(r) == start_date <= r.Date /\ r.Date <= end_date

InPreviousPeriod(r) == previous_start <= r.Date /\ r.Date <= previous_end

\* the sum of Revenue over the rows of d whose index is in I
RECURSIVE RevenueOver(_, _)
RevenueOver(d, I) ==
    IF I = {} THEN 0
    ELSE LET i == CHOOSE x \in I : TRUE
         IN  d[i].Revenue + RevenueOver(d, I \ {i})

\* C1: a record of the log is in the filtered subset iff its date is in
\* [start_date, end_date] and its category, region and product are selected;
\* the subset holds records of the log only, as many as satisfy the predicate.
C1_ConjunctiveFilter ==
    Rendered =>
        /\ \A i \in 1..Len(df) :
              InSeq(df[i], filtered_df) <=> (InPeriod(df[i]) /\ InSelection(df[i]))
        /\ \A j \in 1..Len(filtered_df) : InSeq(filtered_df[j], df)
        /\ Len(filtered_df) =
              Cardinality({i \in 1..Len(df) : InPeriod(df[i]) /\ InSelection(df[i])})

\* a run where one record is kept, one is left out by its region alone and
\* one is left out for being dated on the day after end_date
C1_Witness ==
    /\ Rendered
    /\ filtered_df # <<>>
    /\ \E i \in 1..Len(df) :
          /\ InPeriod(df[i])
          /\ df[i].Category \in selected_categories
          /\ df[i].Product \in selected_products
          /\ df[i].Region \notin selected_regions
    /\ \E i \in 1..Len(df) : InSelection(df[i]) /\ df[i].Date = end_date + 1
    /\ \E i \in 1..Len(df) : InSelection(df[i]) /\ df[i].Date = end_date

\* C2: with an empty set of categories, regions or products the filtered
\* subset is empty and every KPI is zero (the average and the growth rate by
\* their zero fallback).
C2_EmptySelection ==
    (Rendered /\ (\/ selected_categories = {}
                  \/ selected_regions = {}
                  \/ selected_products = {})) =>
        /\ filtered_df = <<>>
        /\ total_revenue = 0
        /\ total_transactions = 0
        /\ avg_transaction = <<0, 1>>
        /\ total_quantity = 0
        /\ growth_rate = <<0, 1>>

\* only the regions are deselected, over a period whose previous period has
\* records
C2_Witness ==
    /\ Rendered
    /\ selected_regions = {}
    /\ selected_categories = CategoryOptions(df)
    /\ selected_products = ProductOptions(df)
    /\ start_date > MinDate(df)
    /\ total_transactions = 0

\* C3: for start_date <= end_date the previous window has as many days as the
\* selected period (at least 1), ends the day before start_date, and shares
\* no day with the selected period.
C3_PreviousWindow ==
    (Rendered /\ start_date <= end_date) =>
        /\ period_days = end_date - start_date + 1
        /\ period_days >= 1
        /\ previous_end - previous_start + 1 = period_days
        /\ previous_end = start_date - 1
        /\ \A day \in previous_start..previous_end : ~(start_date <= day /\ day <= end_date)

\* a period of two days
C3_Witness ==
    /\ Rendered
    /\ start_date = 2
    /\ end_date = 3
    /\ previous_start = 0
    /\ previous_end = 1

\* C9: a record of the log is in the previous-period subset iff its date is
\* in [previous_start, previous_end] and its category, region and product are
\* in the sets used for the current period; previous_revenue is the sum of
\* Revenue over those records.
C9_PreviousSubset ==
    Rendered =>
        /\ \A i \in 1..Len(df) :
              InSeq(df[i], previous_df) <=> (InPreviousPeriod(df[i]) /\ InSelection(df[i]))
        /\ \A j \in 1..Len(previous_df) : InSeq(previous_df[j], df)
        /\ previous_revenue =
              RevenueOver(df, {i \in 1..Len(df) :
                                  InPreviousPeriod(df[i]) /\ InSelection(df[i])})

\* the previous window holds a record that is kept and one that is left out
\* by its product alone
C9_Witness ==
    /\ Rendered
    /\ previous_df # <<>>
    /\ previous_revenue = 100000
    /\ period_days = 1
    /\ \E i \in 1..Len(df) :
          /\ InPreviousPeriod(df[i])
          /\ df[i].Category \in selected_categories
          /\ df[i].Region \in selected_regions
          /\ df[i].Product \notin selected_products

\* C10: when start_date is the earliest date of the log the previous window
\* lies before the log, the comparison subset is empty, previous_revenue is 0
\* and growth_rate is 0 whatever the current revenue; no record of the
\* comparison subset is dated before the first day of the log.
C10_NoHistoryBeforeLog ==
    Rendered =>
        /\ (start_date = MinDate(df)) =>
              /\ previous_end < MinDate(df)
              /\ previous_df = <<>>
              /\ previous_revenue = 0
              /\ growth_rate = <<0, 1>>
        /\ \A j \in 1..Len(previous_df) :
              /\ previous_df[j].Date >= MinDate(df)
              /\ InSeq(previous_df[j], df)

\* the default selection: the whole log, with revenue
C10_Witness ==
    /\ Rendered
    /\ start_date = MinDate(df)
    /\ end_date = MaxDate(df)
    /\ current_revenue > 0
    /\ growth_rate = <<0, 1>>

\* C7: once generated, the log is never changed: every run of the script,
\* the formatting of the detailed table included, leaves it as it was.
C7_LogImmutable ==
    [][(pc \in {"ready", "rendered"}) => (df' = df)]_vars

\* a run after a change of the selection, with the detailed table formatted
\* and sorted
C7_Witness ==
    /\ Rendered
    /\ Len(display_df) >= 2
    /\ display_df[1].Date = "2024-01-03"
    /\ display_df[Len(display_df)].Date = "2024-01-02"
    /\ df[1].Date = 1
    /\ df[1] # df[Len(df)]
    /\ selected_products # ProductOptions(df)

\* C4: growth_rate is (current - previous) / previous * 100 when
\* previous_revenue > 0 and 0 when previous_revenue is 0; 1200 against 1000
\* gives 20, 500 against 0 gives 0; no division by zero happens.
C4_GrowthRate ==
    Rendered =>
        /\ growth_rate[2] > 0
        /\ (previous_revenue > 0) =>
              /\ growth_rate[1] * previous_revenue =
                    (current_revenue - previous_revenue) * 100 * growth_rate[2]
        /\ (previous_revenue = 0) => growth_rate = <<0, 1>>
        /\ (current_revenue = 120000 /\ previous_revenue = 100000) =>
              growth_rate = <<20, 1>>
        /\ (current_revenue = 50000 /\ previous_revenue = 0) =>
              growth_rate = <<0, 1>>

\* revenue 1200.00 after a previous period of 1000.00
C4_Witness ==
    /\ Rendered
    /\ current_revenue = 120000
    /\ previous_revenue = 100000
    /\ growth_rate = <<20, 1>>

\* revenue 500.00 after a previous period without revenue
C4_WitnessZeroPrevious ==
    /\ Rendered
    /\ current_revenue = 50000
    /\ previous_revenue = 0
    /\ growth_rate = <<0, 1>>

\* C5: in every record of the log the stored revenue is
\* round(quantity * unit_price, 2) of the stored quantity and unit price.
C5_RevenueIdentity ==
    \A i \in 1..Len(df) :
        df[i].Revenue = Round2(df[i].Quantity * df[i].Unit_Price * 10)

\* the lookup the specification gives
ClaimedCategory ==
    [p \in Range(products) |->
        CASE p \in {"Laptop", "Monitor"} -> "Computers"
          [] p \in {"Smartphone", "Tablet"} -> "Electronics"
          [] p \in {"Headphones", "Webcam"} -> "Audio"
          [] p \in {"Keyboard", "Mouse"} -> "Accessories"]

\* C8: the category of a record is given by its product through the fixed
\* lookup; no two records have the same product and different categories.
C8_CategoryOfProduct ==
    /\ \A i \in 1..Len(data) : data[i].Category = ClaimedCategory[data[i].Product]
    /\ \A i \in 1..Len(df) : df[i].Category = ClaimedCategory[df[i].Product]
    /\ \A i, j \in 1..Len(df) :
          df[i].Product = df[j].Product => df[i].Category = df[j].Category

\* two webcams drawn at different prices
C8_Witness ==
    /\ pc = "ready"
    /\ Len(df) = 2
    /\ df[1].Product = "Webcam"
    /\ df[2].Product = "Webcam"
    /\ df[1].Unit_Price # df[2].Unit_Price

\* the summed revenue of a product in the filtered subset
RevenueOfProduct(p) ==
    RevenueOver(filtered_df, {i \in 1..Len(filtered_df) : filtered_df[i].Product = p})

TopListOk(t, n) ==
    /\ Len(t) <= n
    /\ \A i \in 1..Len(t) : \E j \in 1..Len(filtered_df) : filtered_df[j].Product = t[i].Product
    /\ \A i, j \in 1..Len(t) : i # j => t[i].Product # t[j].Product
    /\ \A i, j \in 1..Len(t) :
          i < j => RevenueOfProduct(t[i].Product) >= RevenueOfProduct(t[j].Product)
    /\ \A j \in 1..Len(filtered_df) :
          (\A i \in 1..Len(t) : t[i].Product # filtered_df[j].Product) =>
              /\ Len(t) = n
              /\ \A i \in 1..Len(t) :
                    RevenueOfProduct(filtered_df[j].Product) <= RevenueOfProduct(t[i].Product)

\* C6: the top-products-by-revenue list has at most 8 entries and the
\* top-selling list at most 5; each is in descending order of summed revenue,
\* holds a product at most once, and leaves out only products whose summed
\* revenue is no greater than that of every product it keeps.
C6_TopLists ==
    Rendered =>
        /\ TopListOk(product_revenue, 8)
        /\ TopListOk(top_products, 5)
        /\ \A i \in 1..Len(product_revenue) :
              product_revenue[i].Revenue = RevenueOfProduct(product_revenue[i].Product)

\* six products sold, five listed, the sixth with less revenue than the fifth
C6_Witness ==
    /\ Rendered
    /\ Cardinality({filtered_df[j].Product : j \in 1..Len(filtered_df)}) = 6
    /\ Len(top_products) = 5
    /\ Len(product_revenue) = 6
    /\ product_revenue[6].Revenue < product_revenue[5].Revenue
    /\ top_products[1].Revenue = "$1,500.00"
====
